---- MODULE Spec2Model ----
(***************************************************************************)
(* Action registry and resolution of mistral/services/action_manager.py.   *)
(*                                                                         *)
(* The registry is the table behind db_api: a set of action records with a *)
(* unique name.  sync_db() clears the system records and registers the     *)
(* discovered ones again; create_action() resolves a task's action.        *)
(***************************************************************************)
EXTENDS Integers, Sequences, FiniteSets, TLC

VARIABLES
    disc,       \* what discovery yields: entry points and generators
    db,         \* committed action records
    tx,         \* per syncer: records inserted in its open transaction
    pc,         \* per syncer: position in sync_db()
    grp,        \* per syncer: 0 = entry points, i = i-th generator
    todo,       \* per syncer: items of the current loop not yet visited
    pre,        \* per syncer: db when its sync_db() was called
    post,       \* per syncer: db when its sync_db() returned or raised
    outcome,    \* per syncer: how its last sync_db() ended
    dups,       \* per syncer: names whose insert hit a duplicate key
    attempted,  \* per syncer: names handed to _register_action_in_db, in order
    synced,     \* db is as a completed sync_db() left it
    resync,     \* per syncer: its sync_db() started from such a db
    alone,      \* per syncer: no other sync_db() ran during its own
    observed,   \* what the last reader call returned
    call,       \* the last create_action call: its task, before and after,
                \* and what it returned or raised
    conv        \* the last ad-hoc conversion: its arguments and its result

vars == <<disc, db, tx, pc, grp, todo, pre, post, outcome, dups, attempted,
          synced, resync, alone, observed, call, conv>>

syncVars == <<disc, db, tx, pc, grp, todo, pre, post, outcome, dups,
              attempted, synced, resync, alone>>

None == "None"

_ACTION_CTX_PARAM == "action_context"

(***************************************************************************)
(* Discovery: the stevedore entry points of namespace 'mistral.actions'    *)
(* and the generators of generator_factory.                                *)
(***************************************************************************)

EntryPoint(name, module, attr, fields) ==
    [name |-> name, module |-> module, attr |-> attr, fields |-> fields]

Generator(namespace, module, class_name, classes) ==
    [action_namespace |-> namespace, module |-> module,
     class_name |-> class_name, action_classes |-> classes]

EchoPlugin == EntryPoint("std.echo", "std_actions", "EchoAction", "output")
HttpPlugin == EntryPoint("std.http", "std_actions", "HTTPAction", "url")
NovaPlugin == EntryPoint("nova.list", "std_actions", "NoopAction", "")

\* how many action classes the larger generator produces
MaxProduced == 2

NovaMethods == <<"list", "show", "delete", "create">>

NovaGenerator ==
    Generator("nova", "os_actions", "NovaAction",
              [local \in {NovaMethods[i] : i \in 1..MaxProduced} |->
                 "nova_" \o local])

NovaGenerator2 ==
    Generator("nova", "os_actions", "NovaV2Action",
              [local \in {"list"} |-> "v2_" \o local])

Discoveries ==
    { [plugins |-> {EchoPlugin, HttpPlugin},
       generators |-> <<NovaGenerator>>],
      [plugins |-> {EchoPlugin},
       generators |-> <<NovaGenerator, NovaGenerator2>>],
      [plugins |-> {EchoPlugin, NovaPlugin},
       generators |-> <<NovaGenerator>>] }

(***************************************************************************)
(* Action records.                                                         *)
(***************************************************************************)

ActionRecord(name, action_class, attributes, is_system) ==
    [name |-> name, action_class |-> action_class, attributes |-> attributes,
     description |-> None, is_system |-> is_system]

SystemRecords(records) == {r \in records : r.is_system}

UserRecords(records) == {r \in records : ~r.is_system}

RecordNames(records) == {r.name : r \in records}

UniqueNames(records) ==
    \A r1, r2 \in records : r1.name = r2.name => r1 = r2

UserEcho == ActionRecord("std.echo", "my_actions.Echo", "text", FALSE)
UserAct == ActionRecord("my.act", "std_actions.HTTPAction", "url", FALSE)
StaleSys == ActionRecord("old.gone", "std_actions.GoneAction", "", TRUE)
StaleNova == ActionRecord("nova.list", "os_actions.OldNova", "old", TRUE)
SysEcho == ActionRecord("std.echo", "std_actions.EchoAction", "output", TRUE)

InitialRegistries ==
    { {}, {UserAct}, {UserEcho, StaleSys}, {UserAct, SysEcho, StaleNova},
      {UserEcho, UserAct, StaleNova}, {StaleSys, SysEcho} }

(***************************************************************************)
(* db_api: the persisted table, its unique key and its transactions.       *)
(***************************************************************************)

\* db_api.create_action(values) raises DBDuplicateEntry
DuplicateEntry(visible, values) ==
    \E r \in visible : r.name = values.name

\* db_api.delete_actions(is_system=...)
DeleteActions(records, is_system) ==
    {r \in records : r.is_system # is_system}

\* db_api.load_action(name): the row of that name, as a set that is empty
\* where Python has None
LoadAction(records, name) == {r \in records : r.name = name}

\* leaving the `with db_api.transaction()` block normally
CommitTx(records, inserted) == records \cup inserted

(***************************************************************************)
(* Registration.                                                           *)
(***************************************************************************)

\* "%s.%s" % (module, class_name); also entry_point_target.replace(':', '.')
ActionClassStr(module, class_name) == module \o "." \o class_name

\* "%s.%s" % (generator.action_namespace, action_name)
FullActionName(namespace, action_name) == namespace \o "." \o action_name

Registration(name, action_class, attributes) ==
    [name |-> name, action_class |-> action_class, attributes |-> attributes]

\* the registrations of one loop: the entry points (0) or the i-th generator
Items(d, i) ==
    IF i = 0
    THEN { Registration(e.name, ActionClassStr(e.module, e.attr), e.fields) :
             e \in d.plugins }
    ELSE LET generator == d.generators[i]
         IN  { Registration(
                   FullActionName(generator.action_namespace, action_name),
                   ActionClassStr(generator.module, generator.class_name),
                   generator.action_classes[action_name]) :
                 action_name \in DOMAIN generator.action_classes }

\* where the loops stand once `left` of loop i remains: the loop and its
\* remaining items, or loop Len + 1 when register_action_classes is through
RECURSIVE Position(_, _, _)
Position(d, i, left) ==
    IF left # {} THEN <<i, left>>
    ELSE IF i < Len(d.generators) THEN Position(d, i + 1, Items(d, i + 1))
    ELSE <<Len(d.generators) + 1, {}>>

\* as _register_action_in_db, were the duplicate answered by removing the row
\* that is in the way
RegisterDropping(records, inserted, name, action_class, attributes) ==
    LET values == ActionRecord(name, action_class, attributes, TRUE)
    IN  IF DuplicateEntry(records \cup inserted, values)
        THEN [db |-> {r \in records : r.name # name},
              tx |-> {r \in inserted : r.name # name},
              duplicate |-> TRUE, raised |-> None]
        ELSE [db |-> records, tx |-> inserted \cup {values},
              duplicate |-> FALSE, raised |-> None]

\* as _register_action_in_db, were the duplicate answered by writing the new
\* values over the row of that name
RegisterReplacing(records, inserted, name, action_class, attributes) ==
    LET values == ActionRecord(name, action_class, attributes, TRUE)
    IN  [db |-> {r \in records : r.name # name},
         tx |-> {r \in inserted : r.name # name} \cup {values},
         duplicate |-> DuplicateEntry(records \cup inserted, values),
         raised |-> None]

\* as _register_action_in_db, were the row written whatever the key holds
RegisterUnchecked(records, inserted, name, action_class, attributes) ==
    [db |-> records,
     tx |-> inserted \cup {ActionRecord(name, action_class, attributes, TRUE)},
     duplicate |-> FALSE, raised |-> None]

\* as _register_action_in_db, were DBDuplicateEntry not caught
RegisterReraising(records, inserted, name, action_class, attributes) ==
    LET values == ActionRecord(name, action_class, attributes, TRUE)
    IN  IF DuplicateEntry(records \cup inserted, values)
        THEN [db |-> records, tx |-> inserted, duplicate |-> TRUE,
              raised |-> "DBDuplicateEntry"]
        ELSE [db |-> records, tx |-> inserted \cup {values},
              duplicate |-> FALSE, raised |-> None]

\* _register_action_in_db: the insert and the swallowed duplicate, on the
\* rows the caller's transaction sees (committed ones and its own)
RegisterActionInDb(records, inserted, name, action_class, attributes) ==
    LET values == ActionRecord(name, action_class, attributes, TRUE)
    IN  IF DuplicateEntry(records \cup inserted, values)
        THEN [db |-> records, tx |-> inserted, duplicate |-> TRUE,
              raised |-> None]
        ELSE [db |-> records, tx |-> inserted \cup {values},
              duplicate |-> FALSE, raised |-> None]

\* as _clear_system_action_db, were nothing deleted
ClearNothing(records) == records

\* as _clear_system_action_db, were the is_system filter left out
ClearEveryAction(records) == {}

\* _clear_system_action_db
ClearSystemActionDb(records) == DeleteActions(records, TRUE)

\* the names discovery yields
DiscoveredNames(d) ==
    UNION { {item.name : item \in Items(d, i)} : i \in 0..Len(d.generators) }

\* one registration loop run through, from the rows `inserted` so far
RECURSIVE RegisterLoop(_, _, _)
RegisterLoop(records, inserted, items) ==
    IF items = {} THEN inserted
    ELSE LET item == CHOOSE i \in items : TRUE
             r == RegisterActionInDb(records, inserted, item.name,
                                     item.action_class, item.attributes)
         IN  RegisterLoop(records, r.tx, items \ {item})

\* the loops i..Len of register_action_classes run through
RECURSIVE RegisterFrom(_, _, _, _)
RegisterFrom(d, i, records, inserted) ==
    IF i > Len(d.generators) THEN inserted
    ELSE RegisterFrom(d, i + 1, records,
                      RegisterLoop(records, inserted, Items(d, i)))

\* sync_db() run from start to return with nothing in between
SyncDb(records, d) ==
    LET cleared == ClearSystemActionDb(records)
    IN  CommitTx(cleared, RegisterFrom(d, 0, cleared, {}))

Syncers == {"sync1", "sync2"}

\* rows other open transactions have inserted and not yet committed
HeldByOthers(p) == UNION {tx[q] : q \in Syncers \ {p}}

\* sync_db(), first statement: the system records are deleted, on their own
ClearStep(p) ==
    /\ pc[p] = "idle"
    /\ db' = ClearSystemActionDb(db)
    /\ pc' = [pc EXCEPT ![p] = "cleared"]
    /\ pre' = [pre EXCEPT ![p] = db]
    /\ post' = [post EXCEPT ![p] = {}]
    /\ outcome' = [outcome EXCEPT ![p] = "running"]
    /\ dups' = [dups EXCEPT ![p] = {}]
    /\ attempted' = [attempted EXCEPT ![p] = <<>>]
    /\ resync' = [resync EXCEPT ![p] = synced]
    /\ synced' = FALSE
    /\ alone' = [q \in Syncers |->
                   IF q = p THEN \A o \in Syncers \ {p} : pc[o] = "idle"
                   ELSE FALSE]
    /\ UNCHANGED <<disc, tx, grp, todo, observed, call, conv>>

\* register_action_classes up to the first loop: the transaction opens
BeginStep(p) ==
    /\ pc[p] = "cleared"
    /\ LET at == Position(disc, 0, Items(disc, 0))
       IN  /\ grp' = [grp EXCEPT ![p] = at[1]]
           /\ todo' = [todo EXCEPT ![p] = at[2]]
    /\ pc' = [pc EXCEPT ![p] = "registering"]
    /\ tx' = [tx EXCEPT ![p] = {}]
    /\ UNCHANGED <<disc, db, pre, post, outcome, dups, attempted, synced,
                   resync, alone, observed, call, conv>>

\* one pass of a registration loop; an insert of a name that another open
\* transaction holds waits for that transaction to end
RegisterStep(p) ==
    /\ pc[p] = "registering"
    /\ grp[p] <= Len(disc.generators)
    /\ \E item \in todo[p] :
         /\ ~DuplicateEntry(HeldByOthers(p), item)
         /\ LET r == RegisterActionInDb(db, tx[p], item.name,
                                        item.action_class, item.attributes)
                at == Position(disc, grp[p], todo[p] \ {item})
            IN  /\ attempted' = [attempted EXCEPT ![p] = Append(@, item.name)]
                /\ IF r.raised = None
                   THEN /\ db' = r.db
                        /\ tx' = [tx EXCEPT ![p] = r.tx]
                        /\ dups' = [dups EXCEPT ![p] =
                                      IF r.duplicate THEN @ \cup {item.name}
                                      ELSE @]
                        /\ grp' = [grp EXCEPT ![p] = at[1]]
                        /\ todo' = [todo EXCEPT ![p] = at[2]]
                        /\ UNCHANGED <<pc, post, outcome>>
                   ELSE \* the exception leaves the with block: rollback
                        /\ db' = db
                        /\ tx' = [tx EXCEPT ![p] = {}]
                        /\ pc' = [pc EXCEPT ![p] = "idle"]
                        /\ post' = [post EXCEPT ![p] = db]
                        /\ outcome' = [outcome EXCEPT ![p] = r.raised]
                        /\ UNCHANGED <<dups, grp, todo>>
    /\ UNCHANGED <<disc, pre, synced, resync, alone, observed, call, conv>>

\* the with block ends: commit, sync_db() returns
CommitStep(p) ==
    /\ pc[p] = "registering"
    /\ grp[p] = Len(disc.generators) + 1
    /\ db' = CommitTx(db, tx[p])
    /\ tx' = [tx EXCEPT ![p] = {}]
    /\ pc' = [pc EXCEPT ![p] = "idle"]
    /\ post' = [post EXCEPT ![p] = db']
    /\ outcome' = [outcome EXCEPT ![p] = "returned"]
    /\ synced' = alone[p]
    /\ UNCHANGED <<disc, pre, grp, todo, dups, attempted, resync, alone,
                   observed, call, conv>>

\* sync_db() fails after it started: discovery or a generator raises, the
\* database connection drops, the process dies.  An open transaction is
\* rolled back; what was committed stays.
FailStep(p) ==
    /\ pc[p] \in {"cleared", "registering"}
    /\ tx' = [tx EXCEPT ![p] = {}]
    /\ pc' = [pc EXCEPT ![p] = "idle"]
    /\ post' = [post EXCEPT ![p] = db]
    /\ outcome' = [outcome EXCEPT ![p] = "failed"]
    /\ UNCHANGED <<disc, db, pre, grp, todo, dups, attempted, synced, resync,
                   alone, observed, call, conv>>

(***************************************************************************)
(* Readers.                                                                *)
(***************************************************************************)

\* action_factory.construct_action_class(action_class, attributes)
ConstructActionClass(action_class, attributes) ==
    [action_class |-> action_class, attributes |-> attributes]

\* as get_action_class, were the name not part of the lookup
GetAnyActionClass(records, action_full_name) ==
    { ConstructActionClass(action_db.action_class, action_db.attributes) :
        action_db \in records }

\* get_action_class: the class, as a set that is empty where Python has None
GetActionClass(records, action_full_name) ==
    { ConstructActionClass(action_db.action_class, action_db.attributes) :
        action_db \in LoadAction(records, action_full_name) }

\* get_registered_actions(is_system=True)
GetRegisteredActions(records) == SystemRecords(records)

LookupNames ==
    {"std.echo", "std.http", "nova.list", "nova.show", "my.act", "nova"}

\* the registries the sync_db() calls under way started from
Racing == {pre[p] : p \in {q \in Syncers : pc[q] # "idle"}}

\* a caller resolves a name; it sees committed rows only
ResolveStep ==
    /\ \E name \in LookupNames :
         observed' = [op |-> "get_action_class", name |-> name,
                      result |-> GetActionClass(db, name), racing |-> Racing]
    /\ UNCHANGED <<syncVars, call, conv>>

\* a caller lists the system actions
ListStep ==
    /\ observed' = [op |-> "get_registered_actions", name |-> None,
                    result |-> GetRegisteredActions(db), racing |-> Racing]
    /\ UNCHANGED <<syncVars, call, conv>>

(***************************************************************************)
(* Tasks.  A Python value that may be None is a set: empty for None, else  *)
(* holding the value.  A dict is a function on its keys.                   *)
(***************************************************************************)

EmptyDict == [k \in {} |-> ""]

\* d.update({key: value}), d[key] = value
DictUpdate(d, key, value) ==
    [k \in DOMAIN d \cup {key} |-> IF k = key THEN value ELSE d[k]]

\* d.get(key)
DictGet(d, key) == IF key \in DOMAIN d THEN {d[key]} ELSE {}

\* Python truth of a dict that may be None
Truthy(opt) == \E d \in opt : DOMAIN d # {}

Task(action, action_spec, parameters, in_context) ==
    [id |-> "t1", name |-> "task1", workbook_name |-> "wb",
     execution_id |-> "e1", tags |-> <<"a", "b">>,
     task_spec |-> [action |-> action], action_spec |-> action_spec,
     parameters |-> parameters, in_context |-> in_context]

AdhocSpec(name, clazz) == [name |-> name, clazz |-> clazz]

TaskActions == {"std.echo", "std.http", "nova.list", "my.greet",
                "nonexistent.action"}

TaskActionSpecs ==
    { {}, {AdhocSpec("my.greet", "std.echo")},
      {AdhocSpec("my.greet", "std.http")},
      {AdhocSpec("my.greet", "nonexistent.base")} }

TaskParameters == { {}, {EmptyDict}, {[who |-> "Ann"]} }

TaskInContexts ==
    { EmptyDict, [openstack |-> EmptyDict],
      [openstack |-> [auth_token |-> "tok"]] }

Tasks ==
    { Task(a, s, prm, ctx) : a \in TaskActions, s \in TaskActionSpecs,
                             prm \in TaskParameters, ctx \in TaskInContexts }

(***************************************************************************)
(* The action classes the registry names: which constructors take the      *)
(* 'action_context' parameter, and what a constructor call can do.         *)
(***************************************************************************)

ContextAwareClasses == {"std_actions.HTTPAction", "os_actions.NovaAction"}

\* a constructor returns, or raises some Exception
ConstructorOutcomes == {"returns", "TypeError", "ValueError"}

\* inspect.getargspec(None.__init__): TypeError on Python 2, an argument
\* list without 'action_context' where inspect can read slot wrappers
InspectNoneOutcomes == {"TypeError", "no_param"}

(***************************************************************************)
(* Action factory.                                                         *)
(***************************************************************************)

\* as _get_action_context, were the platform context tested against None
\* and not for truth
ContextOfNotNone(db_task, openstack_context) ==
    LET result == [workbook_name |-> db_task.workbook_name,
                   execution_id |-> db_task.execution_id,
                   task_id |-> db_task.id,
                   task_name |-> db_task.name,
                   task_tags |-> db_task.tags]
    IN  IF openstack_context # {}
        THEN DictUpdate(result, "openstack",
                        CHOOSE c \in openstack_context : TRUE)
        ELSE result

\* _get_action_context
GetActionContext(db_task, openstack_context) ==
    LET result == [workbook_name |-> db_task.workbook_name,
                   execution_id |-> db_task.execution_id,
                   task_id |-> db_task.id,
                   task_name |-> db_task.name,
                   task_tags |-> db_task.tags]
    IN  IF Truthy(openstack_context)
        THEN DictUpdate(result, "openstack",
                        CHOOSE c \in openstack_context : TRUE)
        ELSE result

\* _has_action_context_param, of a class that get_action_class returned
HasActionContextParam(action_cls) ==
    action_cls.action_class \in ContextAwareClasses

\* what a call returned or raised, and the task as the call left it
Returned(value, cls, context_arg, kwargs, db_task) ==
    [status |-> "returned", value |-> value, raised |-> None,
     message |-> None, about |-> {}, cause |-> None, cls |-> cls,
     context_arg |-> context_arg, kwargs |-> kwargs, task |-> db_task]

Raised(type, message, about, cause, cls, kwargs, db_task) ==
    [status |-> "raised", value |-> None, raised |-> type,
     message |-> message, about |-> about, cause |-> cause, cls |-> cls,
     context_arg |-> {}, kwargs |-> kwargs, task |-> db_task]

\* _create_adhoc_action; value None stands for `return None`
CreateAdhocAction(records, db_task, openstack_context, inspect_none, ctor) ==
    LET full_action_name == db_task.task_spec.action
        raw_action_spec == db_task.action_spec
    IN  IF raw_action_spec = {}
        THEN Returned(None, {}, {}, {}, db_task)
        ELSE
        LET action_spec == CHOOSE a \in raw_action_spec : TRUE
            base_cls == GetActionClass(records, action_spec.clazz)
        IN  IF base_cls = {} /\ inspect_none = "TypeError"
            THEN Raised("TypeError", None, {}, None, {}, {}, db_task)
            ELSE
            LET has_param == \E c \in base_cls : HasActionContextParam(c)
                action_context ==
                    IF has_param
                    THEN {GetActionContext(db_task, openstack_context)}
                    ELSE {}
            IN  IF base_cls = {}
                THEN Raised("ActionException",
                            "Ad-hoc action base class is not registered",
                            {[workbook_name |-> db_task.workbook_name,
                              action |-> full_action_name]},
                            None, {}, {}, db_task)
                ELSE
                LET action_params ==
                        IF Truthy(db_task.parameters)
                        THEN CHOOSE d \in db_task.parameters : TRUE
                        ELSE EmptyDict
                IN  IF ctor = "returns"
                    THEN Returned("AdHocAction", base_cls, action_context,
                                  {action_params}, db_task)
                    ELSE Raised(ctor, None, {}, None, base_cls,
                                {action_params}, db_task)

\* as create_action's last statement, were the constructor called outside
\* the try block
InstantiateUnguarded(action_cls, action_params, db_task, constructor) ==
    IF constructor = "returns"
    THEN Returned("Action", action_cls, {}, {action_params}, db_task)
    ELSE Raised(constructor, None, {}, None, action_cls, {action_params},
                db_task)

\* create_action, lines 209-213: the constructor call and its wrapping
Instantiate(action_cls, action_params, db_task, constructor) ==
    IF constructor = "returns"
    THEN Returned("Action", action_cls, {}, {action_params}, db_task)
    ELSE Raised("ActionException", "Failed to create action",
                {db_task}, constructor, action_cls, {action_params},
                db_task)

\* as the context injection of create_action, were the check of the
\* constructor's parameters left out
InjectAlways(action_cls, db_task, openstack_ctx) ==
    LET action_params ==
            IF Truthy(db_task.parameters)
            THEN CHOOSE d \in db_task.parameters : TRUE
            ELSE EmptyDict
    IN  DictUpdate(action_params, _ACTION_CTX_PARAM,
                   GetActionContext(db_task, openstack_ctx))

\* create_action, lines 203-207: the constructor's keyword arguments
ActionParams(action_cls, db_task, openstack_ctx) ==
    LET action_params ==
            IF Truthy(db_task.parameters)
            THEN CHOOSE d \in db_task.parameters : TRUE
            ELSE EmptyDict
    IN  IF \E c \in action_cls : HasActionContextParam(c)
        THEN DictUpdate(action_params, _ACTION_CTX_PARAM,
                        GetActionContext(db_task, openstack_ctx))
        ELSE action_params

\* create_action, lines 199-201
UnknownAction(db_task, full_action_name) ==
    Raised("ActionException", "Unknown action",
           {[workbook_name |-> db_task.workbook_name,
             action |-> full_action_name]},
           None, {}, {}, db_task)

\* create_action
CreateAction(records, db_task, inspect_none, constructor) ==
    LET full_action_name == db_task.task_spec.action
        action_cls == GetActionClass(records, full_action_name)
        openstack_ctx == DictGet(db_task.in_context, "openstack")
    IN  IF action_cls = {}
        THEN
            IF openstack_ctx # {} /\ db_task.parameters = {}
            THEN \* None has no update()
                 Raised("AttributeError", None, {}, None, {}, {}, db_task)
            ELSE
            LET updated ==
                    IF openstack_ctx # {}
                    THEN [db_task EXCEPT !.parameters =
                            { DictUpdate(d, "openstack",
                                         CHOOSE c \in openstack_ctx : TRUE) :
                                d \in db_task.parameters }]
                    ELSE db_task
                action == CreateAdhocAction(records, updated, openstack_ctx,
                                            inspect_none, constructor)
            IN  IF action.status = "returned" /\ action.value = None
                THEN UnknownAction(updated, full_action_name)
                ELSE action
        ELSE
            LET action_params ==
                    ActionParams(action_cls, db_task, openstack_ctx)
                \* `parameters or {}` is the task's own dict when that is
                \* not empty: what is put into it shows in the task
                after == IF Truthy(db_task.parameters)
                         THEN [db_task EXCEPT !.parameters = {action_params}]
                         ELSE db_task
            IN  Instantiate(action_cls, action_params, after, constructor)

NoCall ==
    [task |-> {}, inspect_none |-> None, constructor |-> None,
     result |-> {}]

\* the engine hands a task to the factory
TaskArrives ==
    /\ call.task = {}
    /\ \E db_task \in Tasks :
         call' = [NoCall EXCEPT !.task = {db_task}]
    /\ UNCHANGED <<syncVars, observed, conv>>

\* create_action(db_task) runs, on the committed registry
CreateActionStep ==
    /\ call.task # {}
    /\ call.result = {}
    /\ \E db_task \in call.task, inspect_none \in InspectNoneOutcomes,
          constructor \in ConstructorOutcomes :
         call' = [task |-> {db_task}, inspect_none |-> inspect_none,
                  constructor |-> constructor,
                  result |-> {CreateAction(db, db_task, inspect_none,
                                           constructor)}]
    /\ UNCHANGED <<syncVars, observed, conv>>

\* the engine takes what create_action returned or raised
TaskDone ==
    /\ call.result # {}
    /\ call' = NoCall
    /\ UNCHANGED <<syncVars, observed, conv>>

(***************************************************************************)
(* Ad-hoc composer.  JSON-like data: a string, a string holding one        *)
(* expression '<% $.key %>', or a dict of such.                            *)
(***************************************************************************)

Str(text) == [type |-> "str", text |-> text]

Expr(key) == [type |-> "expr", key |-> key]

Map(items) == [type |-> "dict", items |-> items]

\* how deep the dicts of an ad-hoc spec nest
MaxDepth == 2

Leaves == {Str("hi"), Expr("who"), Expr("echoed")}

\* the values under a key of a dict whose nesting is at most n
RECURSIVE Nodes(_)
Nodes(n) ==
    IF n = 0 THEN Leaves
    ELSE Leaves \cup {Map(EmptyDict)}
                \cup {Map([k \in {"inner"} |-> v]) : v \in Nodes(n - 1)}

\* the dicts an ad-hoc spec can hold as base-parameters or output
SpecDicts ==
    UNION { {Map(f) : f \in [keys -> Nodes(MaxDepth - 1)]} :
              keys \in SUBSET {"message", "greeting"} }

\* action_spec.base_parameters: None, or a dict
BaseParameters == {{}} \cup {{d} : d \in SpecDicts}

\* action_spec.output: None, a string or a dict
OutputTransforms ==
    {{}} \cup {{Str("")}} \cup {{d} : d \in SpecDicts}
         \cup {{v} : v \in Nodes(MaxDepth)}

\* the parameters of an ad-hoc call, and the results of a base action
CallData ==
    { Map(EmptyDict), Map([who |-> Str("Ann")]),
      Map([who |-> Str("Bob"), echoed |-> Str("Bob says hi")]) }

\* Python truth of a string, a dict or None
NotEmpty(opt) ==
    \E v \in opt : IF v.type = "dict" THEN DOMAIN v.items # {}
                   ELSE IF v.type = "str" THEN v.text # ""
                   ELSE TRUE

\* the value of one expression in a context: the context's entry under the
\* key, None where it has none
EvaluateExpr(key, context) ==
    IF context.type = "dict" /\ key \in DOMAIN context.items
    THEN context.items[key]
    ELSE Str(None)

\* expr.evaluate_recursively(data, context)
RECURSIVE EvaluateRecursively(_, _)
EvaluateRecursively(data, context) ==
    IF data.type = "dict"
    THEN Map([k \in DOMAIN data.items |->
                EvaluateRecursively(data.items[k], context)])
    ELSE IF data.type = "expr" THEN EvaluateExpr(data.key, context)
    ELSE data

\* as convert_adhoc_action_params, were the call's parameters passed on
\* where the spec has no base-parameters
ConvertForwarding(base_parameters, params) ==
    IF ~NotEmpty(base_parameters) THEN params
    ELSE EvaluateRecursively(CHOOSE b \in base_parameters : TRUE, params)

\* convert_adhoc_action_params, given workbook.get_action(action_name)
\* .base_parameters
ConvertAdhocActionParams(base_parameters, params) ==
    IF ~NotEmpty(base_parameters) THEN Map(EmptyDict)
    ELSE EvaluateRecursively(CHOOSE b \in base_parameters : TRUE, params)

\* as convert_adhoc_action_result, were the transform evaluated against
\* nothing
ConvertResultBlind(transformer, result) ==
    IF ~NotEmpty(transformer) THEN result
    ELSE EvaluateRecursively(CHOOSE t \in transformer : TRUE,
                             Map(EmptyDict))

\* convert_adhoc_action_result, given workbook.get_action(action_name).output
ConvertAdhocActionResult(transformer, result) ==
    IF ~NotEmpty(transformer) THEN result
    ELSE EvaluateRecursively(CHOOSE t \in transformer : TRUE, result)

NoConversion == [op |-> None, spec |-> {}, arg |-> {}, result |-> {}]

\* an ad-hoc action's call parameters are mapped to its base action's
ConvertParamsStep ==
    /\ conv.op = None
    /\ \E base_parameters \in BaseParameters, params \in CallData :
         conv' = [op |-> "convert_adhoc_action_params",
                  spec |-> base_parameters, arg |-> {params},
                  result |-> {ConvertAdhocActionParams(base_parameters,
                                                       params)}]
    /\ UNCHANGED <<syncVars, observed, call>>

\* the base action's result is mapped to the ad-hoc action's
ConvertResultStep ==
    /\ conv.op = None
    /\ \E transformer \in OutputTransforms, result \in CallData :
         conv' = [op |-> "convert_adhoc_action_result",
                  spec |-> transformer, arg |-> {result},
                  result |-> {ConvertAdhocActionResult(transformer,
                                                       result)}]
    /\ UNCHANGED <<syncVars, observed, call>>

\* the caller takes the converted value
ConversionDone ==
    /\ conv.op # None
    /\ conv' = NoConversion
    /\ UNCHANGED <<syncVars, observed, call>>

(***************************************************************************)
(* Specifications.                                                         *)
(***************************************************************************)

\* nothing run yet: no sync_db(), no reader, no create_action
AtRest ==
    /\ tx = [p \in Syncers |-> {}]
    /\ pc = [p \in Syncers |-> "idle"]
    /\ grp = [p \in Syncers |-> 0]
    /\ todo = [p \in Syncers |-> {}]
    /\ pre = [p \in Syncers |-> {}]
    /\ post = [p \in Syncers |-> {}]
    /\ outcome = [p \in Syncers |-> "none"]
    /\ dups = [p \in Syncers |-> {}]
    /\ attempted = [p \in Syncers |-> <<>>]
    /\ synced = FALSE
    /\ resync = [p \in Syncers |-> FALSE]
    /\ alone = [p \in Syncers |-> FALSE]
    /\ observed = [op |-> None, name |-> None, result |-> {},
                   racing |-> {}]
    /\ call = NoCall
    /\ conv = NoConversion

Init ==
    /\ disc \in Discoveries
    /\ db \in InitialRegistries
    /\ AtRest

\* one administrative sync at a time, any number of readers
Next ==
    \/ ClearStep("sync1")
    \/ BeginStep("sync1")
    \/ RegisterStep("sync1")
    \/ CommitStep("sync1")
    \/ FailStep("sync1")
    \/ ResolveStep
    \/ ListStep

Spec == Init /\ [][Next]_vars

\* two callers run sync_db() once each; the calls may overlap in any way
NextConcurrent ==
    \E p \in Syncers :
        \/ (outcome[p] = "none" /\ ClearStep(p))
        \/ BeginStep(p)
        \/ RegisterStep(p)
        \/ CommitStep(p)
        \/ FailStep(p)

SpecConcurrent == Init /\ [][NextConcurrent]_vars

\* the action factory on a registry at rest: as found, or as a sync_db()
\* run to completion leaves it
InitCreate ==
    /\ disc \in Discoveries
    /\ \E r \in InitialRegistries : db \in {r, SyncDb(r, disc)}
    /\ AtRest

NextCreate == TaskArrives \/ CreateActionStep \/ TaskDone

SpecCreate == InitCreate /\ [][NextCreate]_vars

\* the ad-hoc composer's two conversions
NextConvert == ConvertParamsStep \/ ConvertResultStep \/ ConversionDone

SpecConvert == Init /\ [][NextConvert]_vars

(***************************************************************************)
(* Registry sync: the claims.                                              *)
(***************************************************************************)

\* what a reader call returns on a registry
View(op, name, records) ==
    IF op = "get_action_class" THEN GetActionClass(records, name)
    ELSE GetRegisteredActions(records)

\* C1: a sync_db() that fails after it started leaves the registry exactly
\* as it was when the call began.
C1_NoPartialSystemSet ==
    \A p \in Syncers : outcome[p] = "failed" => post[p] = pre[p]

\* C2: a reader racing one sync_db() gets the answer of the registry from
\* before the sync or the answer of the registry the completed sync leaves.
C2_ReaderSeesOldOrNew ==
    (observed.op # None /\ Cardinality(observed.racing) = 1) =>
        \A old \in observed.racing :
            \/ observed.result = View(observed.op, observed.name, old)
            \/ observed.result =
                   View(observed.op, observed.name, SyncDb(old, disc))

\* C3: a sync_db() that runs to completion right after a completed
\* sync_db() leaves the system records the first one left.
C3_IdempotentSync ==
    \A p \in Syncers :
        (outcome[p] = "returned" /\ resync[p]) =>
            SystemRecords(post[p]) = SystemRecords(pre[p])

C3_Witness ==
    /\ outcome["sync1"] = "returned"
    /\ resync["sync1"]
    /\ dups["sync1"] # {}
    /\ SystemRecords(post["sync1"]) # {}
    /\ UserRecords(post["sync1"]) # {}

\* C4: the registry never holds two records of one name, whatever names
\* entry points and generators produce.
C4_NameUniqueness ==
    /\ UniqueNames(db)
    /\ \A p \in Syncers : UniqueNames(db \cup tx[p])

\* two generators produced nova.list and the sync completed
C4_Witness ==
    /\ Len(disc.generators) = 2
    /\ outcome["sync1"] = "returned"
    /\ "nova.list" \in dups["sync1"]
    /\ "nova.list" \notin RecordNames(pre["sync1"])
    /\ db = post["sync1"]

\* C5: from the call of sync_db() on, during it and after it returned or
\* failed, the user-defined records are those of before the call.
C5_UserRecordsUntouched ==
    \A p \in Syncers :
        outcome[p] # "none" =>
            UserRecords(IF pc[p] = "idle" THEN post[p] ELSE db)
                = UserRecords(pre[p])

\* a discovered name met a user-defined record of that name
C5_Witness ==
    /\ outcome["sync1"] = "returned"
    /\ UserEcho \in pre["sync1"]
    /\ "std.echo" \in dups["sync1"]
    /\ SystemRecords(post["sync1"]) # {}

\* C6: a duplicate key never ends sync_db() with DBDuplicateEntry, and a
\* sync_db() that returns has handed every discovered name to the registry,
\* each once, and every one of them is registered.
C6_DuplicateSwallowed ==
    \A p \in Syncers :
        /\ outcome[p] # "DBDuplicateEntry"
        /\ outcome[p] = "returned" =>
              /\ {attempted[p][i] : i \in DOMAIN attempted[p]}
                     = DiscoveredNames(disc)
              /\ DiscoveredNames(disc) \subseteq RecordNames(post[p])
              /\ \A i \in DOMAIN attempted[p] :
                     attempted[p][i] \notin dups[p] =>
                         \E r \in SystemRecords(post[p]) :
                             r.name = attempted[p][i]

\* a registration after a swallowed duplicate went in
C6_Witness ==
    /\ outcome["sync1"] = "returned"
    /\ \E i, j \in DOMAIN attempted["sync1"] :
         /\ i < j
         /\ attempted["sync1"][i] \in dups["sync1"]
         /\ attempted["sync1"][j] \notin dups["sync1"]
         /\ \E r \in SystemRecords(post["sync1"]) :
              r.name = attempted["sync1"][j]

(***************************************************************************)
(* Action factory: the claims.                                             *)
(***************************************************************************)

\* the task's action name is in the registry
Registered(db_task) == GetActionClass(db, db_task.task_spec.action) # {}

\* the task's ad-hoc spec names a base class that is in the registry
BaseRegistered(db_task) ==
    \E a \in db_task.action_spec : GetActionClass(db, a.clazz) # {}

IsUnknownActionError(c, db_task) ==
    /\ c.status = "raised"
    /\ c.raised = "ActionException"
    /\ c.message = "Unknown action"
    /\ c.about = {[workbook_name |-> db_task.workbook_name,
                   action |-> db_task.task_spec.action]}

\* C7: create_action of a task whose action is not registered and that has
\* no ad-hoc spec raises the 'Unknown action' ActionException naming the
\* workbook and the action, and nothing else.
C7_UnknownAction ==
    \A db_task \in call.task, c \in call.result :
        (~Registered(db_task) /\ db_task.action_spec = {}) =>
            IsUnknownActionError(c, db_task)

\* C8: create_action that falls back to an ad-hoc spec whose base class is
\* not registered raises the 'base class is not registered' ActionException,
\* and nothing else.
C8_UnregisteredBaseAction ==
    \A db_task \in call.task, c \in call.result :
        (/\ ~Registered(db_task)
         /\ db_task.action_spec # {}
         /\ ~BaseRegistered(db_task)) =>
            /\ c.status = "raised"
            /\ c.raised = "ActionException"
            /\ c.message = "Ad-hoc action base class is not registered"

\* C9: a registered class without the 'action_context' parameter gets the
\* task's parameters and no context; one with it gets the context built
\* from the task under the key 'action_context'.  The ad-hoc wrapper gets
\* the context as its action_context argument exactly when the base class
\* has the parameter, and None otherwise.
C9_ContextGating ==
    \A db_task \in call.task, c \in call.result :
        LET context == GetActionContext(
                           db_task, DictGet(db_task.in_context, "openstack"))
        IN  /\ (Registered(db_task) /\ c.cls # {}) =>
                  \A cls \in c.cls, kwargs \in c.kwargs :
                      IF HasActionContextParam(cls)
                      THEN /\ _ACTION_CTX_PARAM \in DOMAIN kwargs
                           /\ kwargs[_ACTION_CTX_PARAM] = context
                      ELSE /\ _ACTION_CTX_PARAM \notin DOMAIN kwargs
                           /\ {kwargs} = IF Truthy(db_task.parameters)
                                         THEN db_task.parameters
                                         ELSE {EmptyDict}
            /\ (~Registered(db_task) /\ c.value = "AdHocAction") =>
                  \A cls \in c.cls, kwargs \in c.kwargs :
                      /\ c.context_arg =
                             IF HasActionContextParam(cls) THEN {context}
                             ELSE {}
                      /\ _ACTION_CTX_PARAM \notin DOMAIN kwargs

\* a class without the parameter was instantiated for a task that has
\* parameters and a platform context
C9_Witness ==
    \E db_task \in call.task, c \in call.result :
        /\ Registered(db_task)
        /\ c.value = "Action"
        /\ Truthy(DictGet(db_task.in_context, "openstack"))
        /\ \E cls \in c.cls, kwargs \in c.kwargs :
             /\ ~HasActionContextParam(cls)
             /\ "who" \in DOMAIN kwargs

\* C10: when the action is registered and its constructor raises, what
\* create_action raises is the 'Failed to create action' ActionException
\* carrying the task and the constructor's exception.
C10_ConstructionFailureWrapped ==
    \A db_task \in call.task, c \in call.result :
        (Registered(db_task) /\ call.constructor # "returns") =>
            /\ c.status = "raised"
            /\ c.raised = "ActionException"
            /\ c.message = "Failed to create action"
            /\ c.cause = call.constructor
            /\ c.about = {c.task}
            /\ c.task.id = db_task.id

C10_Witness ==
    \E db_task \in call.task, c \in call.result :
        /\ Registered(db_task)
        /\ call.constructor = "ValueError"
        /\ c.raised = "ActionException"
        /\ c.cause = "ValueError"
        /\ c.cls # {}

(***************************************************************************)
(* Ad-hoc composer: the claims.                                            *)
(***************************************************************************)

\* value is data with every expression replaced by what the context holds
\* under its key, and everything else as it is
RECURSIVE IsEvaluationOf(_, _, _)
IsEvaluationOf(value, data, context) ==
    IF data.type = "dict"
    THEN /\ value.type = "dict"
         /\ DOMAIN value.items = DOMAIN data.items
         /\ \A k \in DOMAIN data.items :
                IsEvaluationOf(value.items[k], data.items[k], context)
    ELSE IF data.type = "expr"
    THEN IF data.key \in DOMAIN context.items
         THEN value = context.items[data.key]
         ELSE value = Str(None)
    ELSE value = data

\* C11: with base-parameters absent or empty the converted parameters are
\* the empty dict whatever the call's parameters; otherwise they are the
\* base-parameters evaluated with the call's parameters as context.
C11_AdhocParameterIsolation ==
    conv.op = "convert_adhoc_action_params" =>
        \A params \in conv.arg, r \in conv.result :
            IF conv.spec = {} \/ conv.spec = {Map(EmptyDict)}
            THEN r = Map(EmptyDict)
            ELSE \A b \in conv.spec : IsEvaluationOf(r, b, params)

\* no base-parameters, call parameters given, nothing passed on
C11_Witness ==
    /\ conv.op = "convert_adhoc_action_params"
    /\ conv.spec = {}
    /\ conv.arg = {Map([who |-> Str("Ann")])}
    /\ conv.result = {Map(EmptyDict)}

\* C12: with no output transform (None, or an empty one) the converted
\* result is the base action's result as it is; otherwise it is the
\* transform evaluated with the base action's result as context.
C12_ResultPassThrough ==
    conv.op = "convert_adhoc_action_result" =>
        \A result \in conv.arg, r \in conv.result :
            IF conv.spec \subseteq {Map(EmptyDict), Str("")}
            THEN r = result
            ELSE \A t \in conv.spec : IsEvaluationOf(r, t, result)

\* no output transform, and a result that is not empty
C12_Witness ==
    /\ conv.op = "convert_adhoc_action_result"
    /\ conv.spec = {}
    /\ conv.arg = {Map([who |-> Str("Ann")])}
    /\ conv.result = conv.arg

(***************************************************************************)
(* Resolver and registration order: the claims.                            *)
(***************************************************************************)

\* C13: get_action_class(name) returns the class built from action_class
\* and attributes of the record of exactly that name, None when there is
\* no such record; it changes no record and creates no action.
C13_Resolver ==
    [][(observed' # observed /\ observed'.op = "get_action_class") =>
          /\ observed'.result =
                 { [action_class |-> r.action_class,
                    attributes |-> r.attributes] :
                     r \in {x \in db : x.name = observed'.name} }
          /\ Cardinality(observed'.result) <= 1
          /\ db' = db
          /\ tx' = tx
          /\ call' = call]_vars

\* a name that is registered was resolved to its class
C13_Witness ==
    /\ observed.op = "get_action_class"
    /\ observed.name = "nova.list"
    /\ observed.result # {}
    /\ Cardinality(db) > 1

\* name is produced by generators i and j, i the first and j the last to
\* produce it, and neither an entry point nor a user-defined record of
\* `before` has that name
Collide(d, before, i, j, name) ==
    /\ i < j
    /\ name \in RecordNames(Items(d, i)) \cap RecordNames(Items(d, j))
    /\ \A k \in 0..Len(d.generators) :
           name \in RecordNames(Items(d, k)) => (i <= k /\ k <= j)
    /\ name \notin RecordNames(UserRecords(before))

\* the record _register_action_in_db writes for a registration
RecordOf(item) ==
    ActionRecord(item.name, item.action_class, item.attributes, TRUE)

\* C14 as stated: of two generators producing one full name, the one that
\* registered later leaves its record (last write wins).
C14_LastWriteWins ==
    \A p \in Syncers :
        outcome[p] = "returned" =>
            \A i, j \in 1..Len(disc.generators) :
                \A b \in Items(disc, j) :
                    Collide(disc, pre[p], i, j, b.name) =>
                        LoadAction(post[p], b.name) = {RecordOf(b)}

\* C14, amended: of two generators producing one full name, the one that
\* registered earlier leaves its record (first write wins; the later
\* insert is a swallowed duplicate).
C14_FirstWriteWins ==
    \A p \in Syncers :
        outcome[p] = "returned" =>
            \A i, j \in 1..Len(disc.generators) :
                \A a \in Items(disc, i) :
                    Collide(disc, pre[p], i, j, a.name) =>
                        LoadAction(post[p], a.name) = {RecordOf(a)}

\* a sync completed in which two generators produced nova.list
C14_Witness ==
    /\ outcome["sync1"] = "returned"
    /\ Len(disc.generators) = 2
    /\ Collide(disc, pre["sync1"], 1, 2, "nova.list")
    /\ "nova.list" \in dups["sync1"]
    /\ \E r \in post["sync1"] :
         r.name = "nova.list" /\ r.action_class = "os_actions.NovaAction"

(***************************************************************************)
(* Action factory: frame, precedence and the execution context.            *)
(***************************************************************************)

\* C15: create_action leaves the task as it was handed in (its parameters
\* gain no 'openstack' and no 'action_context' entry, whether the call
\* returns or raises).  The registry it only reads: CreateActionStep
\* leaves db and tx alone.
C15_CreateActionPure ==
    \A db_task \in call.task, c \in call.result : c.task = db_task

\* C16: a registered action name is served from the registry, by the
\* registered class and never by the ad-hoc wrapper, whatever ad-hoc spec
\* the task carries; the ad-hoc spec is used only for a name that is not
\* registered; and a task with neither is the 'Unknown action' failure.
C16_ResolutionPrecedence ==
    \A db_task \in call.task, c \in call.result :
        /\ Registered(db_task) =>
              /\ c.cls = GetActionClass(db, db_task.task_spec.action)
              /\ c.value # "AdHocAction"
              /\ call.constructor = "returns" =>
                     (c.status = "returned" /\ c.value = "Action")
        /\ c.value = "AdHocAction" =>
              (~Registered(db_task) /\ db_task.action_spec # {})
        /\ (~Registered(db_task) /\ db_task.action_spec = {}) =>
              IsUnknownActionError(c, db_task)

\* context is the five fields of the task, and the platform context under
\* 'openstack' exactly when the task's platform context is not empty
IsContextOf(context, db_task) ==
    LET openstack_ctx == DictGet(db_task.in_context, "openstack")
        fields == {"workbook_name", "execution_id", "task_id", "task_name",
                   "task_tags"}
    IN  /\ DOMAIN context =
               fields \cup (IF Truthy(openstack_ctx) THEN {"openstack"}
                            ELSE {})
        /\ context["workbook_name"] = db_task.workbook_name
        /\ context["execution_id"] = db_task.execution_id
        /\ context["task_id"] = db_task.id
        /\ context["task_name"] = db_task.name
        /\ context["task_tags"] = db_task.tags
        /\ Truthy(openstack_ctx) => {context["openstack"]} = openstack_ctx

\* C17: the context _get_action_context builds holds the task's workbook
\* name, execution id, id, name and tags, and the platform context under
\* 'openstack' if and only if that context is not empty; for an absent or
\* empty platform context there is no such key.
C17_ActionContext ==
    \A db_task \in call.task, c \in call.result :
        /\ \A kwargs \in c.kwargs :
               _ACTION_CTX_PARAM \in DOMAIN kwargs =>
                   IsContextOf(kwargs[_ACTION_CTX_PARAM], db_task)
        /\ \A context \in c.context_arg : IsContextOf(context, db_task)

\* a context was built for a task whose platform context is the empty dict
C17_Witness ==
    \E db_task \in call.task, c \in call.result :
        /\ db_task.in_context = [openstack |-> EmptyDict]
        /\ \E kwargs \in c.kwargs :
             /\ _ACTION_CTX_PARAM \in DOMAIN kwargs
             /\ "openstack" \notin DOMAIN kwargs[_ACTION_CTX_PARAM]
             /\ "task_tags" \in DOMAIN kwargs[_ACTION_CTX_PARAM]

(***************************************************************************)
(* What a completed sync leaves.                                           *)
(***************************************************************************)

\* C18: a sync_db() that returned, on a registry whose user-defined records
\* share no name with the discovery, leaves as the names of the system
\* records exactly the discovered names: no system record of before
\* survives unless discovered again, none is missing, and whatever the sync
\* put in is a system record.
C18_SystemSetIsDiscovery ==
    \A p \in Syncers :
        (/\ outcome[p] = "returned"
         /\ RecordNames(UserRecords(pre[p])) \cap DiscoveredNames(disc) = {})
        => /\ RecordNames(SystemRecords(post[p])) = DiscoveredNames(disc)
           /\ \A r \in post[p] \ UserRecords(pre[p]) : r.is_system = TRUE
           /\ \A r \in SystemRecords(post[p]) :
                  \E i \in 0..Len(disc.generators) :
                      \E item \in Items(disc, i) : r = RecordOf(item)

\* a stale system record was there before the sync and is gone after it
C18_Witness ==
    /\ outcome["sync1"] = "returned"
    /\ RecordNames(UserRecords(pre["sync1"])) \cap DiscoveredNames(disc) = {}
    /\ UserAct \in pre["sync1"]
    /\ StaleNova \in pre["sync1"]
    /\ StaleNova \notin post["sync1"]
    /\ "nova.show" \in RecordNames(post["sync1"])

\* C19: where a user-defined record has the name of a discovered
\* implementation, a sync_db() that returned leaves that record the only
\* one of its name, no system record of that name, and get_action_class of
\* the name gives the user-defined record's implementation.
C19_UserRecordShadows ==
    \A p \in Syncers :
        outcome[p] = "returned" =>
            \A u \in UserRecords(pre[p]) :
                u.name \in DiscoveredNames(disc) =>
                    /\ {r \in post[p] : r.name = u.name} = {u}
                    /\ u.name \notin RecordNames(SystemRecords(post[p]))
                    /\ GetActionClass(post[p], u.name) =
                           {[action_class |-> u.action_class,
                             attributes |-> u.attributes]}

\* the user's std.echo met the discovered std.echo
C19_Witness ==
    /\ outcome["sync1"] = "returned"
    /\ UserEcho \in pre["sync1"]
    /\ "std.echo" \in DiscoveredNames(disc)
    /\ "std.echo" \in dups["sync1"]
    /\ UserEcho \in post["sync1"]
    /\ db = post["sync1"]

(***************************************************************************)
(* Two sync_db() calls at once.                                            *)
(***************************************************************************)

\* C20 as stated: once two overlapping sync_db() calls on one discovery
\* have both returned, the names of the system records are the discovered
\* names, one record per name, none missing.
C20_ConcurrentSyncsConverge ==
    (\A p \in Syncers : outcome[p] = "returned") =>
        /\ RecordNames(SystemRecords(db)) = DiscoveredNames(disc)
        /\ UniqueNames(db)

\* C20, amended: once two overlapping sync_db() calls on one discovery have
\* both returned, the names of the system records are the discovered names
\* that no user-defined record holds, one record per name, none missing,
\* and each system record is the record of a discovered implementation.
C20_ConvergeButShadowed ==
    (\A p \in Syncers : outcome[p] = "returned") =>
        /\ RecordNames(SystemRecords(db)) =
               DiscoveredNames(disc) \ RecordNames(UserRecords(db))
        /\ UniqueNames(db)
        /\ \A r \in SystemRecords(db) :
               \E i \in 0..Len(disc.generators) :
                   \E item \in Items(disc, i) : r = RecordOf(item)

\* both calls returned, neither ran alone, and the second met a record the
\* first had put in
C20_Witness ==
    /\ \A p \in Syncers : outcome[p] = "returned" /\ ~alone[p]
    /\ StaleSys \in pre["sync1"]
    /\ \E name \in dups["sync2"] :
         /\ name \notin RecordNames(UserRecords(db))
         /\ name \notin dups["sync1"]
         /\ name \in RecordNames(SystemRecords(db))

====
